---- MODULE Spec2Model ----
(***************************************************************************)
(* Budzet-domowy: the financial-cycle accounting engine of the App         *)
(* component (ledger state, mutation handlers, rollover effect) and the    *)
(* payday-anchored period calculator.                                      *)
(*                                                                         *)
(* Conventions of the model                                                *)
(*  - amounts are integers (minor currency units); the handlers only add   *)
(*    and subtract them;                                                   *)
(*  - a timestamp is the local calendar date [y, m, d] it falls on, with   *)
(*    m in 0..11 as in the JavaScript Date API;                            *)
(*  - `state` is the React state as the queued updaters see it (`prev`),   *)
(*    `rendered` holds the fields of the last rendered `state` that the    *)
(*    handlers' closures read directly.                                    *)
(***************************************************************************)
EXTENDS Integers, Sequences, FiniteSets, TLC

\* ------------------------------------------------------------------ bounds
MaxClock == 1        \* milliseconds the clock advances within a day
MaxBalance == 3      \* handlers are explored while |balance| <= MaxBalance
MaxRecords == 2      \* records held at once, all collections together
MaxDays == 2         \* days the wall clock advances past FirstDay
MaxFixed == 2        \* fixed expenses held at once
MaxCalls == 2        \* handler calls explored by the whole-engine Spec
MaxYears == 2        \* calendar years the period calculator is applied to
MaxLen == 3          \* characters typed into an input field

\* ------------------------------------------------------- input alphabets
Sources == {"bank", "cash"}
Amounts == {1, 2}
CategoryNotes == {<<"food", "">>, <<"fun", "gift">>}  \* category, note
Notes == {"gift"}                                     \* spending notes

\* ----------------------------------------------------------- JS Date API
\* Date values: local calendar dates.
IsLeap(y) == (y % 4 = 0 /\ y % 100 # 0) \/ y % 400 = 0

DaysInMonth(y, m) ==
    IF m = 1 THEN (IF IsLeap(y) THEN 29 ELSE 28)
    ELSE IF m \in {3, 5, 8, 10} THEN 30 ELSE 31

\* new Date(year, month, day): out-of-range months and days carry over.
RECURSIVE NewDate(_, _, _)
NewDate(y, m, d) ==
    IF m < 0 THEN NewDate(y - 1, m + 12, d)
    ELSE IF m > 11 THEN NewDate(y + 1, m - 12, d)
    ELSE IF d < 1 THEN
        (IF m = 0 THEN NewDate(y - 1, 11, d + 31)
         ELSE NewDate(y, m - 1, d + DaysInMonth(y, m - 1)))
    ELSE IF d > DaysInMonth(y, m) THEN NewDate(y, m + 1, d - DaysInMonth(y, m))
    ELSE [y |-> y, m |-> m, d |-> d]

\* date.getTime() ordering of two local dates
DateLE(a, b) ==
    \/ a.y < b.y
    \/ a.y = b.y /\ a.m < b.m
    \/ a.y = b.y /\ a.m = b.m /\ a.d <= b.d

DateLT(a, b) == DateLE(a, b) /\ a # b

\* end.setMonth(end.getMonth() + 1)
AddMonth(date) == NewDate(date.y, date.m + 1, date.d)

\* Date.prototype.toDateString(): "Wed Jan 10 2024" - weekday, month name,
\* day and year of the local date; the weekday is determined by the rest.
MonthNames == <<"Jan", "Feb", "Mar", "Apr", "May", "Jun",
                "Jul", "Aug", "Sep", "Oct", "Nov", "Dec">>

toDateString(date) == <<MonthNames[date.m + 1], date.d, date.y>>

\* ------------------------------------------------------ period calculator
\* variant: the payday itself still counts to the previous period
periodStartAfterPayday(date, payDay) ==
    LET stepBack == date.d <= payDay
        month1 == IF stepBack THEN date.m - 1 ELSE date.m
        year == IF stepBack /\ month1 < 0 THEN date.y - 1 ELSE date.y
        month == IF month1 < 0 THEN 11 ELSE month1
    IN  NewDate(year, month, payDay)

\* getFinancialMonthStart without the final toDateString()
periodStart(date, payDay) ==
    LET stepBack == date.d < payDay
        month1 == IF stepBack THEN date.m - 1 ELSE date.m
        year == IF stepBack /\ month1 < 0 THEN date.y - 1 ELSE date.y
        month == IF month1 < 0 THEN 11 ELSE month1
    IN  NewDate(year, month, payDay)

getFinancialMonthStart(date, payDay) == toDateString(periodStart(date, payDay))

\* ------------------------------------------------------------ array helpers
\* Array.prototype.find on the id: index of the first match, 0 if none
RECURSIVE FindFrom(_, _, _)
FindFrom(arr, id, i) ==
    IF i > Len(arr) THEN 0
    ELSE IF arr[i].id = id THEN i
    ELSE FindFrom(arr, id, i + 1)

Find(arr, id) == FindFrom(arr, id, 1)

HasId(arr, id) == \E i \in 1..Len(arr) : arr[i].id = id

Ids(arr) == {arr[i].id : i \in 1..Len(arr)}

\* Array.prototype.filter(x => x.id !== id)
RemoveId(arr, id) == SelectSeq(arr, LAMBDA x : x.id # id)

\* obj[source] +/- delta as a new balance object
BalancePlus(balance, source, delta) ==
    [balance EXCEPT ![source] = @ + delta]

\* ------------------------------------------ mutation handlers (latest App)
\* Each operator is the updater passed to setState: prev |-> next.

addIncome(prev, id, amount, source, entryDate) ==
    [prev EXCEPT
        !.balance = BalancePlus(prev.balance, source, amount),
        !.incomes = <<[id |-> id, amount |-> amount, date |-> entryDate,
                       source |-> source]>> \o prev.incomes]

editIncome(prev, id, amount, source, date) ==
    LET i == Find(prev.incomes, id) IN
    IF i = 0 THEN prev
    ELSE
        LET oldIncome == prev.incomes[i]
            reversed == BalancePlus(prev.balance, oldIncome.source,
                                    -oldIncome.amount)
        IN  [prev EXCEPT
                !.balance = BalancePlus(reversed, source, amount),
                !.incomes = [k \in 1..Len(prev.incomes) |->
                    IF prev.incomes[k].id = id
                    THEN [prev.incomes[k] EXCEPT !.amount = amount,
                             !.source = source, !.date = date]
                    ELSE prev.incomes[k]]]

deleteIncome(prev, id) ==
    LET i == Find(prev.incomes, id) IN
    IF i = 0 THEN prev
    ELSE
        LET inc == prev.incomes[i] IN
        [prev EXCEPT
            !.balance = BalancePlus(prev.balance, inc.source, -inc.amount),
            !.incomes = RemoveId(prev.incomes, id)]

\* toggleFixed: `expense` and `willBePaid` are computed from the rendered
\* state before setState; the updater applies them to prev.
toggleFixedUpdater(prev, id, expense, willBePaid) ==
    [prev EXCEPT
        !.balance = BalancePlus(prev.balance, expense.source,
                        IF willBePaid THEN -expense.amount
                        ELSE expense.amount),
        !.fixedExpenses = [k \in 1..Len(prev.fixedExpenses) |->
            IF prev.fixedExpenses[k].id = id
            THEN [prev.fixedExpenses[k] EXCEPT !.isPaid = willBePaid]
            ELSE prev.fixedExpenses[k]]]

toggleFixed(prev, shown, id) ==
    LET i == Find(shown.fixedExpenses, id) IN
    IF i = 0 THEN prev
    ELSE toggleFixedUpdater(prev, id, shown.fixedExpenses[i],
                            ~shown.fixedExpenses[i].isPaid)

addFixed(prev, id, name, amount, source, dueDate) ==
    [prev EXCEPT !.fixedExpenses = Append(prev.fixedExpenses,
        [id |-> id, name |-> name, amount |-> amount, isPaid |-> FALSE,
         source |-> source, dueDate |-> dueDate])]

editFixedReconciling(prev, id, name, amount, source, dueDate) ==
    LET i == Find(prev.fixedExpenses, id)
        old == prev.fixedExpenses[i]
        reversed == BalancePlus(prev.balance, old.source, old.amount)
    IN
    [prev EXCEPT
        !.balance = IF i # 0 /\ old.isPaid
                    THEN BalancePlus(reversed, source, -amount)
                    ELSE @,
        !.fixedExpenses = [k \in 1..Len(prev.fixedExpenses) |->
            IF prev.fixedExpenses[k].id = id
            THEN [prev.fixedExpenses[k] EXCEPT !.name = name,
                     !.amount = amount, !.source = source,
                     !.dueDate = dueDate]
            ELSE prev.fixedExpenses[k]]]

editFixed(prev, id, name, amount, source, dueDate) ==
    [prev EXCEPT !.fixedExpenses = [k \in 1..Len(prev.fixedExpenses) |->
        IF prev.fixedExpenses[k].id = id
        THEN [prev.fixedExpenses[k] EXCEPT !.name = name, !.amount = amount,
                 !.source = source, !.dueDate = dueDate]
        ELSE prev.fixedExpenses[k]]]

deleteFixed(prev, id) ==
    [prev EXCEPT !.fixedExpenses = RemoveId(prev.fixedExpenses, id)]

resetFixed(prev) ==
    [prev EXCEPT !.fixedExpenses = [k \in 1..Len(prev.fixedExpenses) |->
        [prev.fixedExpenses[k] EXCEPT !.isPaid = FALSE]]]

addEnvelope(prev, id, name, description, targetAmount) ==
    [prev EXCEPT !.envelopes = Append(prev.envelopes,
        [id |-> id, name |-> name, description |-> description,
         allocated |-> 0, targetAmount |-> targetAmount])]

editEnvelope(prev, id, name, description, allocated, targetAmount) ==
    [prev EXCEPT !.envelopes = [k \in 1..Len(prev.envelopes) |->
        IF prev.envelopes[k].id = id
        THEN [prev.envelopes[k] EXCEPT !.name = name,
                 !.description = description, !.allocated = allocated,
                 !.targetAmount = targetAmount]
        ELSE prev.envelopes[k]]]

\* variant: the deleted envelope's transactions are dropped with it
deleteEnvelopeWithLog(prev, shown, id) ==
    LET i == Find(shown.envelopes, id)
        refund == IF i # 0 THEN shown.envelopes[i].allocated ELSE 0
    IN  [prev EXCEPT
            !.balance = BalancePlus(prev.balance, "bank", refund),
            !.envelopes = RemoveId(prev.envelopes, id),
            !.envelopeTransactions =
                SelectSeq(prev.envelopeTransactions,
                          LAMBDA t : t.envelopeId # id)]

\* deleteEnvelope: `refund` is read from the rendered state before setState
deleteEnvelope(prev, shown, id) ==
    LET i == Find(shown.envelopes, id)
        refund == IF i # 0 THEN shown.envelopes[i].allocated ELSE 0
    IN  [prev EXCEPT
            !.balance = BalancePlus(prev.balance, "bank", refund),
            !.envelopes = RemoveId(prev.envelopes, id)]

fundEnvelope(prev, id, amount, source, txId, date) ==
    [prev EXCEPT
        !.balance = BalancePlus(prev.balance, source, -amount),
        !.envelopes = [k \in 1..Len(prev.envelopes) |->
            IF prev.envelopes[k].id = id
            THEN [prev.envelopes[k] EXCEPT !.allocated = @ + amount]
            ELSE prev.envelopes[k]],
        !.envelopeTransactions = Append(prev.envelopeTransactions,
            [id |-> txId, envelopeId |-> id, amount |-> amount,
             type |-> "in", date |-> date, note |-> "Zasilenie"])]

\* variant: the spend is also taken from the bank balance
spendFromEnvelopeAndBank(prev, id, amount, note, txId, date) ==
    [prev EXCEPT
        !.balance = BalancePlus(prev.balance, "bank", -amount),
        !.envelopes = [k \in 1..Len(prev.envelopes) |->
            IF prev.envelopes[k].id = id
            THEN [prev.envelopes[k] EXCEPT !.allocated = @ - amount]
            ELSE prev.envelopes[k]],
        !.envelopeTransactions = Append(prev.envelopeTransactions,
            [id |-> txId, envelopeId |-> id, amount |-> amount,
             type |-> "out", date |-> date, note |-> note])]

spendFromEnvelope(prev, id, amount, note, txId, date) ==
    [prev EXCEPT
        !.envelopes = [k \in 1..Len(prev.envelopes) |->
            IF prev.envelopes[k].id = id
            THEN [prev.envelopes[k] EXCEPT !.allocated = @ - amount]
            ELSE prev.envelopes[k]],
        !.envelopeTransactions = Append(prev.envelopeTransactions,
            [id |-> txId, envelopeId |-> id, amount |-> amount,
             type |-> "out", date |-> date, note |-> note])]

addExpense(prev, id, amount, category, note, source, date) ==
    [prev EXCEPT
        !.balance = BalancePlus(prev.balance, source, -amount),
        !.expenses = <<[id |-> id, amount |-> amount, category |-> category,
                        note |-> note, source |-> source, date |-> date]>>
                     \o prev.expenses]

editExpense(prev, id, amount, category, note, source) ==
    LET i == Find(prev.expenses, id) IN
    IF i = 0 THEN prev
    ELSE
        LET oldExp == prev.expenses[i]
            reversed == BalancePlus(prev.balance, oldExp.source,
                                    oldExp.amount)
        IN  [prev EXCEPT
                !.balance = BalancePlus(reversed, source, -amount),
                !.expenses = [k \in 1..Len(prev.expenses) |->
                    IF prev.expenses[k].id = id
                    THEN [prev.expenses[k] EXCEPT !.amount = amount,
                             !.category = category, !.note = note,
                             !.source = source]
                    ELSE prev.expenses[k]]]

deleteExpense(prev, id) ==
    LET i == Find(prev.expenses, id) IN
    IF i = 0 THEN prev
    ELSE
        LET exp == prev.expenses[i] IN
        [prev EXCEPT
            !.balance = BalancePlus(prev.balance, exp.source, exp.amount),
            !.expenses = RemoveId(prev.expenses, id)]

updatePayday(prev, day) ==
    [prev EXCEPT !.settings = [@ EXCEPT !.payday = day]]

\* ------------------------------------ mutation handlers of src/App.tsx
\* The App.tsx revision keeps no income records and does not reconcile the
\* balance when an expense is edited or deleted.
App_addIncome(prev, amount, source) ==
    [prev EXCEPT !.balance = BalancePlus(prev.balance, source, amount)]

App_editExpense(prev, id, amount, category, note, source) ==
    [prev EXCEPT !.expenses = [k \in 1..Len(prev.expenses) |->
        IF prev.expenses[k].id = id
        THEN [prev.expenses[k] EXCEPT !.amount = amount,
                 !.category = category, !.note = note, !.source = source]
        ELSE prev.expenses[k]]]

App_deleteExpense(prev, id) ==
    [prev EXCEPT !.expenses = RemoveId(prev.expenses, id)]

\* --------------------------------------------------------- rollover effect
\* the updater of the rollover effect: clear the paid flags, stamp the reset
\* variant: the reset does not stamp lastResetDate
rolloverUpdaterWithoutStamp(prev, now) ==
    [prev EXCEPT
        !.fixedExpenses = [k \in 1..Len(prev.fixedExpenses) |->
            [prev.fixedExpenses[k] EXCEPT !.isPaid = FALSE]]]

rolloverUpdater(prev, now) ==
    [prev EXCEPT
        !.fixedExpenses = [k \in 1..Len(prev.fixedExpenses) |->
            [prev.fixedExpenses[k] EXCEPT !.isPaid = FALSE]],
        !.settings = [@ EXCEPT !.lastResetDate = now]]

\* a stored lastResetDate that is the empty string (falsy)
EmptyDate == [y |-> 0, m |-> 0, d |-> 0]

\* variant: raw date inequality instead of period-key inequality
periodChangedByDate(settings, now) ==
    toDateString(now) # (IF settings.lastResetDate # EmptyDate
                         THEN toDateString(settings.lastResetDate)
                         ELSE <<>>)

\* currentCycleStart !== lastReset, on the settings of the rendered state
periodChanged(settings, now) ==
    LET currentCycleStart == getFinancialMonthStart(now, settings.payday)
        lastReset == IF settings.lastResetDate # EmptyDate
                     THEN getFinancialMonthStart(settings.lastResetDate,
                                                 settings.payday)
                     ELSE <<>>
    IN  currentCycleStart # lastReset

\* the effect body, run after a render that showed `shown`
rolloverEffect(prev, shown, loadedFlag, now) ==
    IF ~loadedFlag THEN prev
    ELSE IF periodChanged(shown.settings, now) THEN rolloverUpdater(prev, now)
    ELSE prev

\* ------------------------------------------------------------------- state
VARIABLES
    state,        \* the AppState held by useState (latest queued value)
    rendered,     \* fields of the last rendered state read by closures
    day,          \* wall clock: days elapsed since FirstDay
    ms,           \* wall clock: millisecond within the day
    isAppLoaded,  \* the isAppLoaded flag
    effectDeps,   \* dependency values of the rollover effect's last run
    op,           \* the last handler call and its arguments
    loaded,       \* the state the component was constructed with
    lastCheck,    \* period start found by the last run of the rollover check
    calc,         \* period calculator: last input and its results
    budget,       \* handler calls still explored, Unlimited for no cap
    user,         \* the user held by useState: none, signed in, or guest
    localStorage, \* the 'budget_data' item of the browser's localStorage
    cloud,        \* the user's Firestore document
    isFirstRun,   \* the isFirstRun ref of the persistence effect
    isSaving,     \* the isSaving flag behind the saving indicator
    saveTimer,    \* the pending 2000 ms timeouts of saveToCloud
    inFlight,     \* states handed to setDoc calls that have not settled
    idleTimers,   \* pending 500 ms timeouts that clear isSaving
    persistDeps,  \* dependency values of the persistence effect's last run
    fetching,     \* the auth callback awaits getDoc
    bootItem,     \* the 'budget_data' item found at construction
    amountInput   \* the text held by the amount field of the open form

syncVars == <<user, localStorage, cloud, isFirstRun, isSaving, saveTimer,
              inFlight, idleTimers, persistDeps, fetching, bootItem>>

vars == <<state, rendered, day, ms, isAppLoaded, effectDeps, op, loaded,
          lastCheck, calc, budget, user, localStorage, cloud, isFirstRun,
          isSaving, saveTimer, inFlight, idleTimers, persistDeps, fetching,
          bootItem, amountInput>>

Unlimited == 0 - 1

FirstDay == [y |-> 2024, m |-> 0, d |-> 8]
ClockStart == 1000
MissingId == 0
Today == NewDate(FirstDay.y, FirstDay.m, FirstDay.d + day)

\* Date.now(): strictly increasing with the wall clock
DateNow == ClockStart + day * (MaxClock + 1) + ms

DEFAULT_FIXED == <<
    [id |-> 1, name |-> "Czynsz", amount |-> 0, isPaid |-> FALSE,
     source |-> "bank", dueDate |-> <<>>],
    [id |-> 2, name |-> "Prad", amount |-> 0, isPaid |-> FALSE,
     source |-> "bank", dueDate |-> <<>>],
    [id |-> 3, name |-> "Internet", amount |-> 0, isPaid |-> FALSE,
     source |-> "bank", dueDate |-> <<>>],
    [id |-> 4, name |-> "Telefon", amount |-> 0, isPaid |-> FALSE,
     source |-> "bank", dueDate |-> <<>>] >>

DEFAULT_CATEGORIES == <<[id |-> "food", label |-> "Food"],
                        [id |-> "fun", label |-> "Fun"]>>

INITIAL_STATE(moduleDate) ==
    [balance |-> [bank |-> 0, cash |-> 0],
     fixedExpenses |-> DEFAULT_FIXED,
     envelopes |-> <<>>,
     envelopeTransactions |-> <<>>,
     expenses |-> <<>>,
     incomes |-> <<>>,
     categories |-> DEFAULT_CATEGORIES,
     settings |-> [payday |-> 1, lastResetDate |-> moduleDate]]

\* what the handlers' closures read of the rendered state
Shown(st) == [fixedExpenses |-> st.fixedExpenses,
              envelopes |-> st.envelopes,
              settings |-> st.settings]

NoOp == [name |-> "init", id |-> MissingId, amount |-> 0, source |-> "-",
         category |-> "-", note |-> "-"]

Call(name, id, amount, source, category, note) ==
    [name |-> name, id |-> id, amount |-> amount, source |-> source,
     category |-> category, note |-> note]

\* a step that is no handler call
Event(name) == Call(name, MissingId, 0, "-", "-", "-")

Abs(n) == IF n < 0 THEN -n ELSE n

\* the part of the state space that is explored
Bounded(st) ==
    /\ Abs(st.balance.bank) <= MaxBalance
    /\ Abs(st.balance.cash) <= MaxBalance
    /\ Len(st.expenses) + Len(st.incomes) + Len(st.envelopes)
          + Len(st.envelopeTransactions) <= MaxRecords
    /\ (Len(st.fixedExpenses) <= MaxFixed
          \/ st.fixedExpenses = DEFAULT_FIXED)
    /\ \A k \in 1..Len(st.envelopes) :
          Abs(st.envelopes[k].allocated) <= MaxBalance

\* a handler call: the queued updater is applied to the latest state
Handle(next, call) ==
    /\ budget # 0
    /\ budget' = IF budget = Unlimited THEN Unlimited ELSE budget - 1
    /\ Bounded(next)
    /\ state' = next
    /\ op' = call
    /\ UNCHANGED syncVars
    /\ UNCHANGED <<rendered, day, ms, isAppLoaded, effectDeps, loaded,
                   lastCheck>>

\* ------------------------------------------------------- handler inputs
Names == {"Czynsz"}
Descriptions == {""}
TargetAmounts == {0}
DueDates == {<<>>, <<10>>}
Allocations == {0} \cup Amounts
PaydayInputs == {9, 10}

\* ids a view can pass: those of stored records, or one no record has
IdInputs(arr) == Ids(arr) \cup {MissingId}

\* ----------------------------------------------------------------- actions
AddIncome ==
    /\ \E amount \in Amounts, source \in Sources :
           Handle(addIncome(state, DateNow, amount, source, Today),
                  Call("addIncome", DateNow, amount, source, "-", "-"))
    /\ UNCHANGED <<calc, amountInput>>

EditIncome ==
    /\ \E id \in IdInputs(state.incomes), amount \in Amounts,
          source \in Sources :
           Handle(editIncome(state, id, amount, source, Today),
                  Call("editIncome", id, amount, source, "-", "-"))
    /\ UNCHANGED <<calc, amountInput>>

DeleteIncome ==
    /\ \E id \in IdInputs(state.incomes) :
           Handle(deleteIncome(state, id),
                  Call("deleteIncome", id, 0, "-", "-", "-"))
    /\ UNCHANGED <<calc, amountInput>>

ToggleFixed ==
    /\ \E id \in IdInputs(state.fixedExpenses) \cup Ids(rendered.fixedExpenses) :
           Handle(toggleFixed(state, rendered, id),
                  Call("toggleFixed", id, 0, "-", "-", "-"))
    /\ UNCHANGED <<calc, amountInput>>

AddFixed ==
    /\ \E name \in Names, amount \in Amounts, source \in Sources,
          dueDate \in DueDates :
           Handle(addFixed(state, DateNow, name, amount, source, dueDate),
                  Call("addFixed", DateNow, amount, source, "-", "-"))
    /\ UNCHANGED <<calc, amountInput>>

EditFixed ==
    /\ \E id \in IdInputs(state.fixedExpenses), name \in Names,
          amount \in Amounts, source \in Sources, dueDate \in DueDates :
           Handle(editFixed(state, id, name, amount, source, dueDate),
                  Call("editFixed", id, amount, source, "-", "-"))
    /\ UNCHANGED <<calc, amountInput>>

DeleteFixed ==
    /\ \E id \in IdInputs(state.fixedExpenses) :
           Handle(deleteFixed(state, id),
                  Call("deleteFixed", id, 0, "-", "-", "-"))
    /\ UNCHANGED <<calc, amountInput>>

ResetFixed ==
    /\ Handle(resetFixed(state), Call("resetFixed", MissingId, 0, "-", "-", "-"))
    /\ UNCHANGED <<calc, amountInput>>

AddEnvelope ==
    /\ \E name \in Names, description \in Descriptions,
          targetAmount \in TargetAmounts :
           Handle(addEnvelope(state, DateNow, name, description, targetAmount),
                  Call("addEnvelope", DateNow, 0, "-", "-", "-"))
    /\ UNCHANGED <<calc, amountInput>>

EditEnvelope ==
    /\ \E id \in IdInputs(state.envelopes), name \in Names,
          description \in Descriptions, allocated \in Allocations,
          targetAmount \in TargetAmounts :
           Handle(editEnvelope(state, id, name, description, allocated,
                               targetAmount),
                  Call("editEnvelope", id, allocated, "-", "-", "-"))
    /\ UNCHANGED <<calc, amountInput>>

DeleteEnvelope ==
    /\ \E id \in IdInputs(state.envelopes) \cup Ids(rendered.envelopes) :
           Handle(deleteEnvelope(state, rendered, id),
                  Call("deleteEnvelope", id, 0, "-", "-", "-"))
    /\ UNCHANGED <<calc, amountInput>>

FundEnvelope ==
    /\ \E id \in IdInputs(state.envelopes), amount \in Amounts,
          source \in Sources :
           Handle(fundEnvelope(state, id, amount, source, DateNow, Today),
                  Call("fundEnvelope", id, amount, source, "-", "-"))
    /\ UNCHANGED <<calc, amountInput>>

SpendFromEnvelope ==
    /\ \E id \in IdInputs(state.envelopes), amount \in Amounts, note \in Notes :
           Handle(spendFromEnvelope(state, id, amount, note, DateNow, Today),
                  Call("spendFromEnvelope", id, amount, "-", "-", note))
    /\ UNCHANGED <<calc, amountInput>>

AddExpense ==
    /\ \E amount \in Amounts, cn \in CategoryNotes, source \in Sources :
           Handle(addExpense(state, DateNow, amount, cn[1], cn[2], source,
                             Today),
                  Call("addExpense", DateNow, amount, source, cn[1], cn[2]))
    /\ UNCHANGED <<calc, amountInput>>

EditExpense ==
    /\ \E id \in IdInputs(state.expenses), amount \in Amounts,
          cn \in CategoryNotes, source \in Sources :
           Handle(editExpense(state, id, amount, cn[1], cn[2], source),
                  Call("editExpense", id, amount, source, cn[1], cn[2]))
    /\ UNCHANGED <<calc, amountInput>>

DeleteExpense ==
    /\ \E id \in IdInputs(state.expenses) :
           Handle(deleteExpense(state, id),
                  Call("deleteExpense", id, 0, "-", "-", "-"))
    /\ UNCHANGED <<calc, amountInput>>

UpdatePayday ==
    /\ \E d \in PaydayInputs :
           Handle(updatePayday(state, d),
                  Call("updatePayday", MissingId, d, "-", "-", "-"))
    /\ UNCHANGED <<calc, amountInput>>

\* ------------------------------------------- text inputs and their parsing
\* the text of an input field: a sequence of characters
Texts(keys) == UNION {[1..n -> keys] : n \in 0..MaxLen}

DigitChars == <<"0", "1", "2", "3", "4", "5", "6", "7", "8", "9">>
IsDigit(c) == \E k \in 1..Len(DigitChars) : DigitChars[k] = c
DigitValue(c) == (CHOOSE k \in 1..Len(DigitChars) : DigitChars[k] = c) - 1

\* the number value NaN; every comparison with it is false
NaN == 0 - 2147483647
isNaN(v) == v = NaN
LessThan(a, b) == ~isNaN(a) /\ ~isNaN(b) /\ a < b
GreaterThan(a, b) == ~isNaN(a) /\ ~isNaN(b) /\ a > b

RECURSIVE TrimStart(_)
TrimStart(text) ==
    IF text # <<>> /\ Head(text) = " " THEN TrimStart(Tail(text)) ELSE text

\* the longest prefix of decimal digits: its value and its length
RECURSIVE ParseDigits(_, _, _)
ParseDigits(text, value, count) ==
    IF text # <<>> /\ IsDigit(Head(text))
    THEN ParseDigits(Tail(text), value * 10 + DigitValue(Head(text)),
                     count + 1)
    ELSE [value |-> value, count |-> count, rest |-> text]

\* parseInt(string): leading white space, an optional sign, then digits up
\* to the first other character; NaN when there is no digit
parseInt(text) ==
    LET trimmed == TrimStart(text)
        signed == trimmed # <<>> /\ Head(trimmed) \in {"-", "+"}
        digits == ParseDigits(IF signed THEN Tail(trimmed) ELSE trimmed,
                              0, 0)
    IN  IF digits.count = 0 THEN NaN
        ELSE IF signed /\ Head(trimmed) = "-" THEN -digits.value
        ELSE digits.value

\* Settings view, payday input: onChange
paydayOnChange(value) ==
    LET parsed == parseInt(value)
        atLeast1 == IF LessThan(parsed, 1) THEN 1 ELSE parsed
    IN  IF GreaterThan(atLeast1, 28) THEN 28 ELSE atLeast1

PaydayKeys == {"0", "2", "9", "-", "a", " "}

PaydayChange ==
    /\ \E value \in Texts(PaydayKeys) :
           Handle(updatePayday(state, paydayOnChange(value)),
                  Call("updatePayday", MissingId, paydayOnChange(value),
                       "-", "-", value))
    /\ UNCHANGED <<calc, amountInput>>

\* ------------------------------------------------ the amount forms
\* keys typed into an amount field (type="text", any character is taken)
AmountKeys == {"0", "1", ",", "-", "a", " "}

RECURSIVE Pow10(_)
Pow10(n) == IF n = 0 THEN 1 ELSE 10 * Pow10(n - 1)

\* a text of MaxLen characters has at most MaxLen - 1 decimals: numbers
\* parsed from amount fields are counted in units of 1 / Scale
Scale == Pow10(MaxLen - 1)

\* String.prototype.replace with a string pattern: the first match only
RECURSIVE replaceFirst(_, _, _)
replaceFirst(text, pattern, replacement) ==
    IF text = <<>> THEN <<>>
    ELSE IF Head(text) = pattern THEN <<replacement>> \o Tail(text)
    ELSE <<Head(text)>> \o replaceFirst(Tail(text), pattern, replacement)

\* replace(/\s/g, ''): every white space character is dropped
RECURSIVE removeWhitespace(_)
removeWhitespace(text) ==
    IF text = <<>> THEN <<>>
    ELSE IF Head(text) = " " THEN removeWhitespace(Tail(text))
    ELSE <<Head(text)>> \o removeWhitespace(Tail(text))

sanitize(text) == removeWhitespace(replaceFirst(text, ",", "."))

\* parseFloat(string): leading white space, an optional sign, digits, an
\* optional point with more digits, up to the first other character; NaN
\* when there is no digit
parseFloat(text) ==
    LET trimmed == TrimStart(text)
        signed == trimmed # <<>> /\ Head(trimmed) \in {"-", "+"}
        whole == ParseDigits(IF signed THEN Tail(trimmed) ELSE trimmed,
                             0, 0)
        hasPoint == whole.rest # <<>> /\ Head(whole.rest) = "."
        fraction == IF hasPoint THEN ParseDigits(Tail(whole.rest), 0, 0)
                    ELSE [value |-> 0, count |-> 0, rest |-> whole.rest]
        magnitude == whole.value * Scale
                     + fraction.value * Pow10(MaxLen - 1 - fraction.count)
    IN  IF whole.count + fraction.count = 0 THEN NaN
        ELSE IF signed /\ Head(trimmed) = "-" THEN -magnitude
        ELSE magnitude

\* onChange of an amount field: setAmount(e.target.value)
setAmount ==
    /\ Len(amountInput) < MaxLen
    /\ \E key \in AmountKeys : amountInput' = Append(amountInput, key)
    /\ op' = Event("setAmount")
    /\ UNCHANGED syncVars
    /\ UNCHANGED <<state, rendered, day, ms, isAppLoaded, effectDeps, loaded,
                   lastCheck, calc, budget>>

\* a submit records the text it read
Submitted(call) == call @@ [text |-> amountInput]

\* the guard of a submit handler fails: it returns and sets nothing
Returns(name) ==
    /\ op' = Submitted(Event(name))
    /\ UNCHANGED syncVars
    /\ UNCHANGED <<state, rendered, day, ms, isAppLoaded, effectDeps, loaded,
                   lastCheck, calc, budget, amountInput>>

\* the guard passes: the mutation is called and the form is closed, its
\* field is reset when the form is opened again
Submits(next, call) ==
    /\ Handle(next, Submitted(call))
    /\ amountInput' = <<>>
    /\ UNCHANGED calc

\* the other fields of the forms are left at one value each
FormSources == {"bank"}
FormCategoryNotes == {<<"food", "">>}

\* Dashboard, income form: handleSubmit; first a variant whose guard lets
\* a zero amount through
Dashboard_handleSubmitAcceptingZero ==
    LET val == parseFloat(sanitize(amountInput)) IN
    IF ~isNaN(val) /\ val >= 0
    THEN \E source \in FormSources :
             Submits(addIncome(state, DateNow, val, source, Today),
                     Call("addIncome", DateNow, val, source, "-", "-"))
    ELSE Returns("Dashboard.handleSubmit")

Dashboard_handleSubmit ==
    LET val == parseFloat(sanitize(amountInput)) IN
    IF ~isNaN(val) /\ GreaterThan(val, 0)
    THEN \E source \in FormSources :
             Submits(addIncome(state, DateNow, val, source, Today),
                     Call("addIncome", DateNow, val, source, "-", "-"))
    ELSE Returns("Dashboard.handleSubmit")

\* Expenses, add and edit form: handleSubmit
Expenses_handleSubmit ==
    LET val == parseFloat(sanitize(amountInput)) IN
    IF ~isNaN(val) /\ GreaterThan(val, 0)
    THEN \E editingExpense \in IdInputs(state.expenses),
            cn \in FormCategoryNotes, source \in FormSources :
             IF editingExpense # MissingId
             THEN Submits(editExpense(state, editingExpense, val, cn[1],
                                      cn[2], source),
                          Call("editExpense", editingExpense, val, source,
                               cn[1], cn[2]))
             ELSE Submits(addExpense(state, DateNow, val, cn[1], cn[2],
                                     source, Today),
                          Call("addExpense", DateNow, val, source, cn[1],
                               cn[2]))
    ELSE Returns("Expenses.handleSubmit")

\* History, edit form of an expense or an income: handleSave
History_handleSave ==
    LET val == parseFloat(sanitize(amountInput)) IN
    \E type \in {"expense", "income"} :
        \E editingItem \in Ids(IF type = "expense" THEN state.expenses
                               ELSE state.incomes) :
            IF isNaN(val) \/ ~GreaterThan(val, 0)
            THEN Returns("History.handleSave")
            ELSE \E cn \in FormCategoryNotes, source \in FormSources :
                IF type = "expense"
                THEN Submits(editExpense(state, editingItem, val, cn[1],
                                         cn[2], source),
                             Call("editExpense", editingItem, val, source,
                                  cn[1], cn[2]))
                ELSE Submits(editIncome(state, editingItem, val, source,
                                        Today),
                             Call("editIncome", editingItem, val, source,
                                  "-", "-"))

\* Envelopes, fund and spend form: handleAction
Envelopes_handleAction ==
    LET val == parseFloat(sanitize(amountInput)) IN
    \E activeEnvelopeId \in Ids(state.envelopes),
       actionType \in {"fund", "spend"} :
        IF ~isNaN(val) /\ GreaterThan(val, 0)
        THEN IF actionType = "fund"
             THEN \E fundSource \in FormSources :
                 Submits(fundEnvelope(state, activeEnvelopeId, val,
                                      fundSource, DateNow, Today),
                         Call("fundEnvelope", activeEnvelopeId, val,
                              fundSource, "-", "-"))
             ELSE \E spendNote \in Notes :
                 Submits(spendFromEnvelope(state, activeEnvelopeId, val,
                                           spendNote, DateNow, Today),
                         Call("spendFromEnvelope", activeEnvelopeId, val,
                              "-", "-", spendNote))
        ELSE Returns("Envelopes.handleAction")

\* FixedExpenses, add and edit form: the day field is a number input with
\* min="1" max="31", the form is submitted only while its fields are valid
DayTexts == {<<>>, <<"0">>, <<"1">>, <<"3", "1">>, <<"3", "2">>}
DayValid(text) == text = <<>> \/ parseInt(text) \in 1..31

\* FixedExpenses, add and edit form: handleSubmit
FixedExpenses_handleSubmit ==
    LET val == parseFloat(sanitize(amountInput)) IN
    \E name \in Names, dueDate \in {text \in DayTexts : DayValid(text)} :
        LET dueDay == IF dueDate # <<>> THEN <<parseInt(dueDate)>>
                      ELSE <<>> IN
        IF ~isNaN(val)
        THEN \E editingExpense \in IdInputs(state.fixedExpenses),
                source \in FormSources :
                 IF editingExpense # MissingId
                 THEN Submits(editFixed(state, editingExpense, name, val,
                                        source, dueDay),
                              Call("editFixed", editingExpense, val, source,
                                   "-", "-"))
                 ELSE Submits(addFixed(state, DateNow, name, val, source,
                                       dueDay),
                              Call("addFixed", DateNow, val, source, "-",
                                   "-"))
        ELSE Returns("FixedExpenses.handleSubmit")

\* The App.tsx revision of the three handlers that differ
App_AddIncome ==
    /\ \E amount \in Amounts, source \in Sources :
           Handle(App_addIncome(state, amount, source),
                  Call("addIncome", MissingId, amount, source, "-", "-"))
    /\ UNCHANGED <<calc, amountInput>>

App_EditExpense ==
    /\ \E id \in IdInputs(state.expenses), amount \in Amounts,
          cn \in CategoryNotes, source \in Sources :
           Handle(App_editExpense(state, id, amount, cn[1], cn[2], source),
                  Call("editExpense", id, amount, source, cn[1], cn[2]))
    /\ UNCHANGED <<calc, amountInput>>

App_DeleteExpense ==
    /\ \E id \in IdInputs(state.expenses) :
           Handle(App_deleteExpense(state, id),
                  Call("deleteExpense", id, 0, "-", "-", "-"))
    /\ UNCHANGED <<calc, amountInput>>

\* A render commits the latest state to the view; the rollover effect runs
\* after it when one of its dependencies [isAppLoaded, payday] changed.
EffectDepsOf(st, loadedFlag) ==
    [mounted |-> TRUE, isAppLoaded |-> loadedFlag,
     payday |-> st.settings.payday]

Render ==
    /\ \/ rendered # Shown(state)
       \/ effectDeps # EffectDepsOf(state, isAppLoaded)
    /\ rendered' = Shown(state)
    /\ effectDeps' = EffectDepsOf(state, isAppLoaded)
    /\ IF effectDeps # EffectDepsOf(state, isAppLoaded)
       THEN /\ state' = rolloverEffect(state, Shown(state), isAppLoaded,
                                       Today)
            /\ op' = Call(IF isAppLoaded THEN "rolloverCheck" ELSE "render",
                          MissingId, 0, "-", "-", "-")
       ELSE /\ state' = state
            /\ op' = Call("render", MissingId, 0, "-", "-", "-")
    /\ lastCheck' = IF effectDeps # EffectDepsOf(state, isAppLoaded)
                        /\ isAppLoaded
                     THEN periodStart(Today, state.settings.payday)
                     ELSE lastCheck
    /\ UNCHANGED syncVars
    /\ UNCHANGED amountInput
    /\ UNCHANGED <<day, ms, isAppLoaded, loaded, calc, budget>>

\* setIsAppLoaded(true) once the auth callback has finished
SetAppLoaded ==
    /\ ~isAppLoaded
    /\ isAppLoaded' = TRUE
    /\ op' = Call("setIsAppLoaded", MissingId, 0, "-", "-", "-")
    /\ UNCHANGED syncVars
    /\ UNCHANGED amountInput
    /\ UNCHANGED <<state, rendered, day, ms, effectDeps, loaded, lastCheck,
                   calc, budget>>

\* the page is reloaded: the component is constructed again from the cached
\* state and its effects run again on the first render
Reload ==
    /\ effectDeps.mounted
    /\ effectDeps' = [mounted |-> FALSE, isAppLoaded |-> FALSE, payday |-> 0]
    /\ rendered' = Shown(state)
    /\ isAppLoaded' = TRUE
    /\ op' = Call("reload", MissingId, 0, "-", "-", "-")
    /\ UNCHANGED syncVars
    /\ UNCHANGED amountInput
    /\ UNCHANGED <<state, day, ms, loaded, lastCheck, calc, budget>>

\* the wall clock
Tick ==
    /\ ms < MaxClock
    /\ ms' = ms + 1
    /\ op' = Call("tick", MissingId, 0, "-", "-", "-")
    /\ UNCHANGED syncVars
    /\ UNCHANGED amountInput
    /\ UNCHANGED <<state, rendered, day, isAppLoaded, effectDeps, loaded,
                   lastCheck, calc, budget>>

NextDay ==
    /\ day < MaxDays
    /\ day' = day + 1
    /\ ms' = 0
    /\ op' = Call("tick", MissingId, 0, "-", "-", "-")
    /\ UNCHANGED syncVars
    /\ UNCHANGED amountInput
    /\ UNCHANGED <<state, rendered, isAppLoaded, effectDeps, loaded,
                   lastCheck, calc, budget>>

\* ------------------------------------------- History view: getPeriodKey
\* Date.prototype.toISOString() of a local midnight: the instant, which the
\* local date identifies
toISOString(date) == <<"local midnight", date.y, date.m + 1, date.d>>

getPeriodKey(date, payday) ==
    LET stepBack == date.d < payday
        month1 == IF stepBack THEN date.m - 1 ELSE date.m
        year == IF stepBack /\ month1 < 0 THEN date.y - 1 ELSE date.y
        month == IF month1 < 0 THEN 11 ELSE month1
    IN  toISOString(NewDate(year, month, payday))

\* the period calculator applied to any date and payday
FirstYear == FirstDay.y - 1
Paydays == 1..28

CalendarDates ==
    {[y |-> y, m |-> m, d |-> d] :
        y \in FirstYear..(FirstYear + MaxYears - 1), m \in 0..11,
        d \in 1..31} \ {dt \in
            [y : FirstYear..(FirstYear + MaxYears - 1), m : 0..11,
             d : 29..31] : dt.d > DaysInMonth(dt.y, dt.m)}

CalcInput(date, payday) ==
    [date |-> date, payday |-> payday, done |-> FALSE,
     start |-> EmptyDate, cycleStart |-> <<>>, key |-> <<>>]

Calculate ==
    /\ ~calc.done
    /\ calc' = [calc EXCEPT
                   !.done = TRUE,
                   !.start = periodStart(calc.date, calc.payday),
                   !.cycleStart = getFinancialMonthStart(calc.date,
                                                         calc.payday),
                   !.key = getPeriodKey(calc.date, calc.payday)]
    /\ UNCHANGED syncVars
    /\ UNCHANGED amountInput
    /\ UNCHANGED <<state, rendered, day, ms, isAppLoaded, effectDeps, op,
                   loaded, lastCheck, budget>>

\* ----------------------------------------- the period filters of the views
\* Expenses view: startDate of the current financial month
startDate(today, payday) ==
    LET before == today.d < payday
        startMonth == IF before THEN today.m - 1 ELSE today.m
    IN  IF startMonth < 0 THEN NewDate(today.y - 1, 11, payday)
        ELSE NewDate(today.y, startMonth, payday)

\* variant: the end of the range counts as inside
currentMonthExpensesToEnd(dates, today, payday) ==
    LET start == startDate(today, payday)
        endDate == AddMonth(start)
    IN  {d \in dates : DateLE(start, d) /\ DateLE(d, endDate)}

\* Expenses view: the records with startDate <= date < endDate
currentMonthExpenses(dates, today, payday) ==
    LET start == startDate(today, payday)
        endDate == AddMonth(start)
    IN  {d \in dates : DateLE(start, d) /\ DateLT(d, endDate)}

\* History view: the records whose period key is the selected one
filteredExpenses(dates, selectedPeriod, payday) ==
    {d \in dates : getPeriodKey(d, payday) = selectedPeriod}

\* the dates of today's year
Todays == {dt \in CalendarDates : dt.y = FirstDay.y}

FilterInput(today, payday) ==
    [today |-> today, payday |-> payday, done |-> FALSE,
     currentMonth |-> {}, filtered |-> {}]

\* both views rendered over records of every calendar date, the History
\* view with the period of today selected
RenderViews ==
    /\ ~calc.done
    /\ calc' = [calc EXCEPT
                   !.done = TRUE,
                   !.currentMonth = currentMonthExpenses(CalendarDates,
                                        calc.today, calc.payday),
                   !.filtered = filteredExpenses(CalendarDates,
                                    getPeriodKey(calc.today, calc.payday),
                                    calc.payday)]
    /\ UNCHANGED syncVars
    /\ UNCHANGED amountInput
    /\ UNCHANGED <<state, rendered, day, ms, isAppLoaded, effectDeps, op,
                   loaded, lastCheck, budget>>

\* ------------------------------------------------ the six-month trends
\* Array.prototype.reduce((sum, x) => sum + Amount(x), 0)
RECURSIVE SumOf(_, _, _)
SumOf(arr, Amount(_), i) ==
    IF i > Len(arr) THEN 0 ELSE Amount(arr[i]) + SumOf(arr, Amount, i + 1)
AmountOf(record) == record.amount

\* the records charted: one on every calendar date
TrendAmount(date) == 1 + (date.d % 2)
TrendRecords ==
    [k \in 1..Cardinality(CalendarDates) |->
        LET date == NewDate(FirstYear, 0, k) IN
        [date |-> date, amount |-> TrendAmount(date)]]

\* variant of the loop body: the end of the month counts as inside
TrendBucketToEnd(records, currentPeriodStart, i) ==
    LET start == NewDate(currentPeriodStart.y, currentPeriodStart.m - i,
                         currentPeriodStart.d)
        end == AddMonth(start)
        counted == SelectSeq(records, LAMBDA r :
                       DateLE(start, r.date) /\ DateLE(r.date, end))
    IN  [label |-> MonthNames[start.m + 1],
         amount |-> SumOf(counted, AmountOf, 1),
         isCurrent |-> i = 0,
         counted |-> counted]

\* the body of the loop `for (let i = 5; i >= 0; i--)` of both charts:
\* the records with start <= date < end and their total; `counted` keeps
\* the records the filter selected
TrendBucket(records, currentPeriodStart, i) ==
    LET start == NewDate(currentPeriodStart.y, currentPeriodStart.m - i,
                         currentPeriodStart.d)
        end == AddMonth(start)
        counted == SelectSeq(records, LAMBDA r :
                       DateLE(start, r.date) /\ DateLT(r.date, end))
    IN  [label |-> MonthNames[start.m + 1],
         amount |-> SumOf(counted, AmountOf, 1),
         isCurrent |-> i = 0,
         counted |-> counted]

\* Dashboard: incomeTrendData, with its own getFinancialMonthStart
incomeTrendData(incomes, now, payday) ==
    LET currentPeriodStart == periodStart(now, payday) IN
    [k \in 1..6 |-> TrendBucket(incomes, currentPeriodStart, 6 - k)]

\* Reports: trendData, from the currentPeriodStart of the view
trendData(expenses, currentPeriodStart) ==
    [k \in 1..6 |-> TrendBucket(expenses, currentPeriodStart, 6 - k)]

TrendInput(today, payday) ==
    [today |-> today, payday |-> payday, done |-> FALSE, view |-> "-",
     data |-> <<>>]

\* one of the two charts is rendered
RenderTrends ==
    /\ ~calc.done
    /\ \E view \in {"Dashboard", "Reports"} :
           calc' = [calc EXCEPT
               !.done = TRUE,
               !.view = view,
               !.data = IF view = "Dashboard"
                        THEN incomeTrendData(TrendRecords, calc.today,
                                             calc.payday)
                        ELSE trendData(TrendRecords,
                                 periodStart(calc.today, calc.payday))]
    /\ UNCHANGED syncVars
    /\ UNCHANGED amountInput
    /\ UNCHANGED <<state, rendered, day, ms, isAppLoaded, effectDeps, op,
                   loaded, lastCheck, budget>>

\* ------------------------------------------------- storage and documents
\* the user state
NoUser == "none"
SignedIn == "signed in"
Guest == "guest"

\* JSON.stringify writes the numbers NaN and Infinity as null
Null == NaN + 1
JSONnumber(v) == IF isNaN(v) THEN Null ELSE v

\* the 'budget_data' item: absent, a text that does not parse, or the JSON
\* text of a value
AbsentItem == [item |-> "absent"]
CorruptItem == [item |-> "corrupt"]

JSONstringify(value) ==
    [item |-> "json",
     value |-> IF "settings" \in DOMAIN value
               THEN [value EXCEPT
                        !.settings.payday = JSONnumber(@)]
               ELSE value]

\* JSON.parse of an item that parses
JSONparse(saved) == saved.value

\* the Firestore document of the user
NoDocument == [exists |-> FALSE]
Document(data) == [exists |-> TRUE, data |-> data]

\* no saveToCloud timeout pending
NoTimer == <<>>

\* ------------------------------------------------ loading and persistence
MaxInFlight == 1     \* setDoc calls awaiting their result at once

\* useState initializer of `state`: the cached item if there is one and it
\* parses, INITIAL_STATE otherwise
initialState(saved) ==
    IF saved.item = "absent" THEN INITIAL_STATE(FirstDay)
    ELSE IF saved.item = "corrupt" THEN INITIAL_STATE(FirstDay)
    ELSE JSONparse(saved)

\* useState initializer of isAppLoaded
initialIsAppLoaded(saved) == saved.item # "absent"

\* migrations of the cloud load
migrate(cloudData) ==
    LET withSettings ==
            IF "settings" \in DOMAIN cloudData THEN cloudData
            ELSE cloudData @@ [settings |-> INITIAL_STATE(FirstDay).settings]
        withCategories ==
            IF "categories" \in DOMAIN withSettings THEN withSettings
            ELSE withSettings @@ [categories |-> DEFAULT_CATEGORIES]
    IN  IF "incomes" \in DOMAIN withCategories THEN withCategories
        ELSE withCategories @@ [incomes |-> <<>>]

\* the main screen is rendered, so its handlers can be called
AppShown == user # NoUser \/ isAppLoaded

\* the persistence effect has run for the values of the last commit; React
\* runs the effects of a commit before it renders the next update
PersistDepsOf ==
    [mounted |-> TRUE, state |-> state, user |-> user,
     isAppLoaded |-> isAppLoaded]

EffectsFlushed == persistDeps = PersistDepsOf

\* onAuthStateChanged callback for a signed-in user, up to its await
AuthSignedIn ==
    /\ EffectsFlushed
    /\ user = NoUser
    /\ user' = SignedIn
    /\ fetching' = TRUE
    /\ op' = Event("signedIn")
    /\ UNCHANGED <<state, rendered, day, ms, isAppLoaded, effectDeps, loaded,
                   lastCheck, calc, budget, localStorage, cloud, isFirstRun,
                   isSaving, saveTimer, inFlight, idleTimers, persistDeps,
                   bootItem, amountInput>>

\* the rest of the callback, once getDoc has settled: the cloud document
\* replaces the state, or the account's first document is written from the
\* `state` the callback closed over; getDoc and setDoc may throw
CloudLoad ==
    /\ EffectsFlushed
    /\ fetching
    /\ fetching' = FALSE
    /\ isAppLoaded' = TRUE
    /\ \E ok \in BOOLEAN :
          /\ op' = Event(IF ok THEN "cloudLoad" ELSE "cloudLoadFailed")
          /\ IF ~ok
             THEN UNCHANGED <<state, localStorage, cloud>>
             ELSE IF cloud.exists
             THEN /\ state' = migrate(cloud.data)
                  /\ localStorage' = JSONstringify(migrate(cloud.data))
                  /\ cloud' = cloud
             ELSE IF localStorage.item = "absent"
             THEN /\ cloud' = Document(INITIAL_STATE(FirstDay))
                  /\ state' = INITIAL_STATE(FirstDay)
                  /\ localStorage' = localStorage
             ELSE /\ cloud' = Document(loaded)
                  /\ UNCHANGED <<state, localStorage>>
    /\ UNCHANGED <<rendered, day, ms, effectDeps, loaded, lastCheck, calc,
                   budget, user, isFirstRun, isSaving, saveTimer, inFlight,
                   idleTimers, persistDeps, bootItem,
                   amountInput>>

\* handleGuestLogin, on the login screen
handleGuestLogin ==
    /\ EffectsFlushed
    /\ ~AppShown
    /\ user' = Guest
    /\ state' = INITIAL_STATE(FirstDay)
    /\ isAppLoaded' = TRUE
    /\ op' = Event("guestLogin")
    /\ UNCHANGED <<rendered, day, ms, effectDeps, loaded, lastCheck, calc,
                   budget, localStorage, cloud, isFirstRun, isSaving,
                   saveTimer, inFlight, idleTimers, persistDeps, fetching,
                   bootItem, amountInput>>

\* the 'budget_user_email' item the auth effect closed over: written by
\* the first login, removed together with the cached data
savedEmail == IF bootItem.item = "absent" THEN <<>> ELSE <<"email">>

\* signOut(auth), from handleLogout, a handler call as those of Handle:
\* the onAuthStateChanged callback runs with currentUser = null
AuthSignedOut ==
    /\ EffectsFlushed
    /\ user = SignedIn
    /\ budget # 0
    /\ budget' = IF budget = Unlimited THEN Unlimited ELSE budget - 1
    /\ user' = NoUser
    /\ isAppLoaded' = IF savedEmail = <<>> THEN FALSE ELSE isAppLoaded
    /\ op' = Event("signedOut")
    /\ UNCHANGED <<state, rendered, day, ms, effectDeps, loaded, lastCheck,
                   calc, localStorage, cloud, isFirstRun, isSaving,
                   saveTimer, inFlight, idleTimers, persistDeps, fetching,
                   bootItem, amountInput>>

\* an auth-state change while the guest is logged in: the callback of the
\* listener subscribed after the guest login returns at once
AuthInGuest ==
    /\ EffectsFlushed
    /\ user = Guest
    /\ op' = Event("authInGuest")
    /\ UNCHANGED <<state, rendered, day, ms, isAppLoaded, effectDeps, loaded,
                   lastCheck, calc, budget, user, localStorage, cloud,
                   isFirstRun, isSaving, saveTimer, inFlight, idleTimers,
                   persistDeps, fetching, bootItem, amountInput>>

\* a pending timeout: the state its saveToCloud closed over, and whether it
\* was set by the latest run of the persistence effect
Timeout(st) == [state |-> st, latest |-> TRUE]

\* the cleanup returned by the latest run: clearTimeout(timeoutId)
clearTimeout(timers) == SelectSeq(timers, LAMBDA t : ~t.latest)

\* the persistence effect, run after a render in which one of its
\* dependencies [state, user, isAppLoaded] changed; the cleanup of its
\* previous run clears that run's timeout first
PersistEffect ==
    /\ ~EffectsFlushed
    /\ persistDeps' = PersistDepsOf
    /\ localStorage' = IF ~isFirstRun THEN JSONstringify(state)
                       ELSE localStorage
    /\ IF user = NoUser \/ ~isAppLoaded \/ user = Guest
       THEN /\ isFirstRun' = isFirstRun
            /\ saveTimer' = clearTimeout(saveTimer)
       ELSE IF isFirstRun
       THEN /\ isFirstRun' = FALSE
            /\ saveTimer' = clearTimeout(saveTimer)
       ELSE /\ isFirstRun' = isFirstRun
            /\ saveTimer' = Append(clearTimeout(saveTimer), Timeout(state))
    /\ op' = Event("persistEffect")
    /\ UNCHANGED <<state, rendered, day, ms, isAppLoaded, effectDeps, loaded,
                   lastCheck, calc, budget, user, cloud, isSaving, inFlight,
                   idleTimers, fetching,
                   bootItem, amountInput>>

\* the 2000 ms timeout fires: saveToCloud sets isSaving and calls setDoc
saveToCloud ==
    /\ Len(inFlight) < MaxInFlight
    /\ \E k \in 1..Len(saveTimer) :
          /\ inFlight' = Append(inFlight, saveTimer[k].state)
          /\ saveTimer' = [j \in 1..(Len(saveTimer) - 1) |->
                               saveTimer[IF j < k THEN j ELSE j + 1]]
    /\ isSaving' = TRUE
    /\ op' = Event("saveToCloud")
    /\ UNCHANGED <<state, rendered, day, ms, isAppLoaded, effectDeps, loaded,
                   lastCheck, calc, budget, user, localStorage, cloud,
                   isFirstRun, idleTimers, persistDeps, fetching,
                   bootItem, amountInput>>

\* setDoc resolves: the document holds the state that was handed over
SaveSucceeds ==
    /\ inFlight # <<>>
    /\ cloud' = Document(Head(inFlight))
    /\ inFlight' = Tail(inFlight)
    /\ idleTimers' = idleTimers + 1
    /\ op' = Event("saveDone")
    /\ UNCHANGED <<state, rendered, day, ms, isAppLoaded, effectDeps, loaded,
                   lastCheck, calc, budget, user, localStorage, isFirstRun,
                   isSaving, saveTimer, persistDeps, fetching,
                   bootItem, amountInput>>

\* variant: a failed save puts the last cloud document back into the state
SaveFailsRollingBack ==
    /\ inFlight # <<>>
    /\ inFlight' = Tail(inFlight)
    /\ idleTimers' = idleTimers + 1
    /\ state' = IF cloud.exists THEN cloud.data ELSE loaded
    /\ op' = Event("saveFailed")
    /\ UNCHANGED <<rendered, day, ms, isAppLoaded, effectDeps, loaded,
                   lastCheck, calc, budget, user, localStorage, cloud,
                   isFirstRun, isSaving, saveTimer, persistDeps, fetching,
                   bootItem, amountInput>>

\* setDoc throws: the error is logged
SaveFails ==
    /\ inFlight # <<>>
    /\ inFlight' = Tail(inFlight)
    /\ idleTimers' = idleTimers + 1
    /\ op' = Event("saveFailed")
    /\ UNCHANGED <<state, rendered, day, ms, isAppLoaded, effectDeps, loaded,
                   lastCheck, calc, budget, user, localStorage, cloud,
                   isFirstRun, isSaving, saveTimer, persistDeps, fetching,
                   bootItem, amountInput>>

\* a 500 ms timeout set in saveToCloud's finally block fires
IdleTimeout ==
    /\ idleTimers > 0
    /\ idleTimers' = idleTimers - 1
    /\ isSaving' = FALSE
    /\ op' = Event("idle")
    /\ UNCHANGED <<state, rendered, day, ms, isAppLoaded, effectDeps, loaded,
                   lastCheck, calc, budget, user, localStorage, cloud,
                   isFirstRun, saveTimer, inFlight, persistDeps, fetching,
                   bootItem, amountInput>>

\* a handler called from the main screen
UserAddsExpense == AppShown /\ EffectsFlushed /\ AddExpense

\* ------------------------------------------------------------ initial states
InitBalances == {<<0, 0>>, <<1, 0>>}   \* bank, cash

\* fixed expenses of a cached state: the first defaults, amounts and sources
\* as the user edited them, none paid
FixedWith(k, amount, source) ==
    [DEFAULT_FIXED[k] EXCEPT !.amount = amount, !.source = source]

SavedFixed(amounts) ==
    UNION {{[k \in 1..n |-> FixedWith(k, f[k][1], f[k][2])] :
                f \in [1..n -> amounts \X Sources]} : n \in 0..MaxFixed}

\* the component is constructed from a cached state (useState initializer)
InitLedger(balances, fixedSet, paydays, resetDates) ==
    state \in {[INITIAL_STATE(r) EXCEPT
                   !.balance = [bank |-> b[1], cash |-> b[2]],
                   !.fixedExpenses = f,
                   !.settings = [payday |-> p, lastResetDate |-> r]] :
               b \in balances, f \in fixedSet,
               p \in paydays, r \in resetDates}

\* nothing rendered yet, no effect run yet, cached data counts as loaded
InitView ==
    /\ rendered = Shown(state)
    /\ day = 0
    /\ ms = 0
    /\ isAppLoaded = TRUE
    /\ effectDeps = [mounted |-> FALSE, isAppLoaded |-> FALSE, payday |-> 0]
    /\ op = NoOp
    /\ loaded = state
    /\ lastCheck = EmptyDate
    /\ user = NoUser
    /\ localStorage = JSONstringify(state)
    /\ cloud = NoDocument
    /\ isFirstRun = TRUE
    /\ isSaving = FALSE
    /\ saveTimer = NoTimer
    /\ inFlight = <<>>
    /\ idleTimers = 0
    /\ persistDeps = [mounted |-> FALSE]
    /\ fetching = FALSE
    /\ bootItem = localStorage
    /\ amountInput = <<>>

InitWith(balances, fixedSet, paydays, resetDates) ==
    /\ InitLedger(balances, fixedSet, paydays, resetDates)
    /\ InitView
    /\ calc = CalcInput(FirstDay, 1)
    /\ budget = Unlimited

\* ------------------------------------------------------------ specifications
\* the whole mutation engine of the latest App revision
Init ==
    /\ InitLedger({<<0, 0>>}, {<<FixedWith(1, 1, "bank")>>}, {10},
                  {FirstDay})
    /\ InitView
    /\ calc = CalcInput(FirstDay, 1)
    /\ budget = MaxCalls

Next ==
    \/ AddIncome \/ EditIncome \/ DeleteIncome
    \/ ToggleFixed \/ AddFixed \/ EditFixed \/ DeleteFixed \/ ResetFixed
    \/ AddEnvelope \/ EditEnvelope \/ DeleteEnvelope
    \/ FundEnvelope \/ SpendFromEnvelope
    \/ AddExpense \/ EditExpense \/ DeleteExpense
    \/ UpdatePayday \/ Render \/ Tick

Spec == Init /\ [][Next]_vars

\* expense handlers, latest revision
InitExpenses == InitWith(InitBalances, {<<>>}, {10}, {FirstDay})

NextExpenses == AddExpense \/ EditExpense \/ DeleteExpense \/ Tick

SpecExpenses == InitExpenses /\ [][NextExpenses]_vars

\* expense handlers, src/App.tsx revision
NextAppExpenses == AddExpense \/ App_EditExpense \/ App_DeleteExpense \/ Tick

SpecAppExpenses == InitExpenses /\ [][NextAppExpenses]_vars

\* income handlers, latest revision
NextIncomes == AddIncome \/ EditIncome \/ DeleteIncome \/ Tick

SpecIncomes == InitExpenses /\ [][NextIncomes]_vars

\* income handler, src/App.tsx revision
NextAppIncomes == App_AddIncome \/ Tick

SpecAppIncomes == InitExpenses /\ [][NextAppIncomes]_vars

\* funding, spending from and deleting envelopes
NextEnvelopes ==
    \/ AddEnvelope \/ DeleteEnvelope
    \/ FundEnvelope \/ SpendFromEnvelope \/ Render \/ Tick

\* a session of at most MaxCalls + 1 handler calls on a ledger with no bills
InitEnvelopes ==
    /\ InitLedger(InitBalances, {<<>>}, {10}, {FirstDay})
    /\ InitView
    /\ calc = CalcInput(FirstDay, 1)
    /\ budget = MaxCalls + 1

SpecEnvelopes == InitEnvelopes /\ [][NextEnvelopes]_vars

\* toggleFixed alone, on a cached state with priced bills
InitToggle == InitWith(InitBalances, SavedFixed(Amounts), {10}, {FirstDay})

NextToggle == ToggleFixed \/ Render

SpecToggle == InitToggle /\ [][NextToggle]_vars

\* Envelopes view: the name shown for a transaction's envelope
getEnvName(envelopes, id) ==
    IF Find(envelopes, id) = 0 THEN "Usunieta"
    ELSE envelopes[Find(envelopes, id)].name

\* a cached ledger in which one envelope was created and funded from the bank
\* the day before
FundedLedger ==
    fundEnvelope(
        addEnvelope(
            [INITIAL_STATE(FirstDay) EXCEPT
                !.fixedExpenses = <<FixedWith(1, 1, "bank")>>,
                !.settings.payday = 10],
            ClockStart - 2, "Czynsz", "", 0),
        ClockStart - 2, 1, "bank", ClockStart - 1,
        NewDate(FirstDay.y, FirstDay.m, FirstDay.d - 1))

\* the whole mutation engine on a fresh ledger and on the funded one
InitLog ==
    /\ \/ InitLedger({<<0, 0>>}, {<<FixedWith(1, 1, "bank")>>}, {10},
                      {FirstDay})
       \/ state = FundedLedger
    /\ InitView
    /\ calc = CalcInput(FirstDay, 1)
    /\ budget = MaxCalls

\* every handler and the rollover effect, the calls of one session made
\* within one reading of the clock
NextLog ==
    \/ AddIncome \/ EditIncome \/ DeleteIncome
    \/ ToggleFixed \/ AddFixed \/ EditFixed \/ DeleteFixed \/ ResetFixed
    \/ AddEnvelope \/ EditEnvelope \/ DeleteEnvelope
    \/ FundEnvelope \/ SpendFromEnvelope
    \/ AddExpense \/ EditExpense \/ DeleteExpense
    \/ UpdatePayday \/ Render

SpecLog == InitLog /\ [][NextLog]_vars

\* the amount forms: an empty ledger and ledgers holding one record that
\* the edit, fund and spend forms can be opened on
EmptyLedger ==
    [INITIAL_STATE(FirstDay) EXCEPT
        !.fixedExpenses = <<>>, !.settings.payday = 10]

FormLedgers ==
    {EmptyLedger,
     addExpense(EmptyLedger, ClockStart - 1, 1, "food", "", "bank",
                FirstDay),
     addIncome(EmptyLedger, ClockStart - 1, 1, "bank", FirstDay),
     addEnvelope(EmptyLedger, ClockStart - 1, "Czynsz", "", 0)}

InitForms ==
    /\ state \in FormLedgers
    /\ InitView
    /\ calc = CalcInput(FirstDay, 1)
    /\ budget = MaxCalls

NextForms ==
    \/ setAmount
    \/ Dashboard_handleSubmit
    \/ Expenses_handleSubmit
    \/ History_handleSave
    \/ Envelopes_handleAction

SpecForms == InitForms /\ [][NextForms]_vars

\* the fixed-expense form: opened on no bill, or on one bill to edit
FixedLedgers ==
    {EmptyLedger,
     addFixed(EmptyLedger, ClockStart - 1, "Czynsz", 1, "bank", <<10>>)}

\* the form is closed by its submit: one submit per opening
InitFixedForm ==
    /\ state \in FixedLedgers
    /\ InitView
    /\ calc = CalcInput(FirstDay, 1)
    /\ budget = 1

\* the amount is typed while the form is open
NextFixedForm ==
    \/ budget # 0 /\ setAmount
    \/ FixedExpenses_handleSubmit

SpecFixedForm == InitFixedForm /\ [][NextFixedForm]_vars

\* documents found in storage: a ledger saved earlier, bank balance `bank`
SavedLedger(bank) ==
    [INITIAL_STATE(FirstDay) EXCEPT
        !.balance.bank = bank, !.fixedExpenses = <<>>,
        !.settings.payday = 10]

\* a document written by an earlier revision of the app lacks some of the
\* fields that were added since
MigratedFields == {"settings", "categories", "incomes"}
Without(doc, fields) == [f \in DOMAIN doc \ fields |-> doc[f]]
OlderDocuments(doc) ==
    {Without(doc, fields) : fields \in SUBSET MigratedFields}

RenderedOf(st) ==
    [f \in {"fixedExpenses", "envelopes", "settings"} \cap DOMAIN st |->
        st[f]]

\* the component is constructed: the useState initializers read the cache
Boot(items, documents) ==
    /\ localStorage \in items
    /\ cloud \in documents
    /\ bootItem = localStorage
    /\ amountInput = <<>>
    /\ state = initialState(localStorage)
    /\ isAppLoaded = initialIsAppLoaded(localStorage)
    /\ loaded = state
    /\ rendered = RenderedOf(state)
    /\ user = NoUser
    /\ fetching = FALSE
    /\ isFirstRun = TRUE
    /\ isSaving = FALSE
    /\ saveTimer = NoTimer
    /\ inFlight = <<>>
    /\ idleTimers = 0
    /\ persistDeps = [mounted |-> FALSE]
    /\ effectDeps = [mounted |-> FALSE, isAppLoaded |-> FALSE, payday |-> 0]
    /\ day = 0
    /\ ms = 0
    /\ op = NoOp
    /\ lastCheck = EmptyDate
    /\ calc = CalcInput(FirstDay, 1)
    /\ budget = MaxCalls

\* loading: every shape of cached item and of cloud document
InitLoad ==
    Boot({AbsentItem}
           \cup {JSONstringify(d) : d \in OlderDocuments(SavedLedger(1))},
         {NoDocument}
           \cup {Document(d) : d \in OlderDocuments(SavedLedger(2))})

NextLoad == AuthSignedIn \/ CloudLoad \/ handleGuestLogin \/ PersistEffect

SpecLoad == InitLoad /\ [][NextLoad]_vars

\* loading, expenses added from the main screen, and the persistence effect
\* with its cloud saves
InitSync ==
    Boot({AbsentItem, CorruptItem, JSONstringify(SavedLedger(1))},
         {NoDocument, Document(SavedLedger(2))})

NextSync ==
    \/ AuthSignedIn \/ CloudLoad \/ handleGuestLogin
    \/ UserAddsExpense \/ PersistEffect
    \/ saveToCloud \/ SaveSucceeds \/ SaveFails \/ IdleTimeout

SpecSync == InitSync /\ [][NextSync]_vars

\* the same steps from a first start without a cached item, where
\* timeouts that are set do fire
InitSave == Boot({AbsentItem}, {NoDocument, Document(SavedLedger(2))})

SpecSyncFair == InitSave /\ [][NextSync]_vars /\ WF_vars(IdleTimeout)

\* a first start with logging in, logging out and the guest login; the
\* payday is changed from the main screen, which also makes the rollover
\* effect run again
UserUpdatesPayday == AppShown /\ EffectsFlushed /\ UpdatePayday

NextGuest ==
    \/ AuthSignedIn \/ CloudLoad \/ AuthSignedOut
    \/ handleGuestLogin \/ AuthInGuest
    \/ UserUpdatesPayday \/ Render \/ PersistEffect
    \/ saveToCloud \/ SaveSucceeds \/ SaveFails \/ IdleTimeout

SpecGuest == InitSave /\ [][NextGuest]_vars

\* the same steps where effects run, timeouts fire, and getDoc and setDoc
\* settle, one way or the other
SpecMirror ==
    /\ SpecSync
    /\ WF_vars(PersistEffect) /\ WF_vars(CloudLoad)
    /\ WF_vars(saveToCloud) /\ WF_vars(SaveSucceeds \/ SaveFails)
    /\ WF_vars(IdleTimeout)

\* a start from the cache while the cloud holds another snapshot: the cached
\* state was reset in the current period, the snapshot in this period or in
\* the one before, with its bill paid or not
CachedNow ==
    [SavedLedger(1) EXCEPT !.fixedExpenses = <<FixedWith(1, 1, "bank")>>]

Snapshots ==
    {[SavedLedger(2) EXCEPT
         !.fixedExpenses = <<[FixedWith(1, 1, "bank") EXCEPT
                                 !.isPaid = paid]>>,
         !.settings = [payday |-> p, lastResetDate |-> r]] :
     paid \in BOOLEAN, p \in PaydayInputs,
     r \in {FirstDay, NewDate(FirstDay.y, FirstDay.m - 1, FirstDay.d)}}

InitReload ==
    Boot({JSONstringify(CachedNow)}, {Document(d) : d \in Snapshots})

NextReload ==
    \/ AuthSignedIn \/ CloudLoad \/ PersistEffect
    \/ Render \/ ToggleFixed

\* renders with their effects happen, and getDoc settles
SpecReload ==
    /\ InitReload /\ [][NextReload]_vars
    /\ WF_vars(Render) /\ WF_vars(PersistEffect) /\ WF_vars(CloudLoad)

\* the Settings view: texts typed into the payday field
InitSettings == InitWith({<<0, 0>>}, {<<>>}, {10}, {FirstDay})

SpecSettings == InitSettings /\ [][PaydayChange]_vars

\* the fixed-expense list: a session of at most MaxCalls + 1 payments and
\* structural edits, starting with one saved bill
InitFixed ==
    /\ InitLedger({<<0, 0>>}, {<<FixedWith(1, 1, "bank")>>}, {10},
                  {FirstDay})
    /\ InitView
    /\ calc = CalcInput(FirstDay, 1)
    /\ budget = MaxCalls + 1

NextFixed ==
    \/ ToggleFixed \/ AddFixed \/ EditFixed \/ DeleteFixed \/ ResetFixed
    \/ Render

SpecFixed == InitFixed /\ [][NextFixed]_vars

\* the rollover monitor: clock, payday changes, reloads and bill payments
InitRollover ==
    InitWith({<<0, 0>>}, {<<FixedWith(1, 1, "bank")>>}, PaydayInputs,
             {FirstDay, NewDate(FirstDay.y, FirstDay.m - 1, FirstDay.d)})

NextRollover ==
    \/ ToggleFixed \/ UpdatePayday \/ Render \/ Reload \/ NextDay

SpecRollover == InitRollover /\ [][NextRollover]_vars

\* the same steps where a pending render, with its effects, does happen
SpecRolloverFair == SpecRollover /\ WF_vars(Render)

\* the period calculator
InitPeriod ==
    /\ InitLedger({<<0, 0>>}, {<<>>}, {10}, {FirstDay})
    /\ InitView
    /\ calc \in {CalcInput(date, payday) :
                   date \in CalendarDates, payday \in Paydays}
    /\ budget = Unlimited

SpecPeriod == InitPeriod /\ [][Calculate]_vars

\* incomes, expenses and envelopes from the initial state: a session of at
\* most MaxCalls + 1 handler calls
InitMoney ==
    /\ state = INITIAL_STATE(FirstDay)
    /\ InitView
    /\ calc = CalcInput(FirstDay, 1)
    /\ budget = MaxCalls + 1

NextMoney ==
    \/ AddIncome \/ EditIncome \/ DeleteIncome
    \/ AddExpense \/ EditExpense \/ DeleteExpense
    \/ AddEnvelope \/ FundEnvelope \/ SpendFromEnvelope \/ DeleteEnvelope
    \/ Render \/ Tick

SpecMoney == InitMoney /\ [][NextMoney]_vars

\* the period filters of the Expenses and History views
InitFilter ==
    /\ InitLedger({<<0, 0>>}, {<<>>}, {10}, {FirstDay})
    /\ InitView
    /\ calc \in {FilterInput(today, payday) :
                   today \in Todays, payday \in Paydays}
    /\ budget = Unlimited

SpecFilter == InitFilter /\ [][RenderViews]_vars

\* the trend charts of the Dashboard and Reports views, rendered in every
\* month of the year: on its first and last day, on the payday and on the
\* day before it
TrendTodays(payday) ==
    {dt \in Todays :
        dt.d \in {1, payday - 1, payday, DaysInMonth(dt.y, dt.m)}}

InitTrend ==
    /\ InitLedger({<<0, 0>>}, {<<>>}, {10}, {FirstDay})
    /\ InitView
    /\ calc \in UNION {{TrendInput(today, payday) :
                             today \in TrendTodays(payday)} :
                         payday \in Paydays}
    /\ budget = Unlimited

SpecTrend == InitTrend /\ [][RenderTrends]_vars

\* ------------------------------------------------------------------ claims
RECURSIVE SumFrom(_, _, _)
SumFrom(arr, source, i) ==
    IF i > Len(arr) THEN 0
    ELSE (IF arr[i].source = source THEN arr[i].amount ELSE 0)
         + SumFrom(arr, source, i + 1)

\* sum of the amounts of the records of arr stored with the given source
SumBySource(arr, source) == SumFrom(arr, source, 1)

\* C1: after any sequence of addExpense, editExpense and deleteExpense calls
\* from a state without expense records, each balance equals its initial
\* value minus the sum of the amounts of the stored expense records of that
\* source.
C1_ExpenseBalanceConservation ==
    \A s \in Sources :
        state.balance[s] = loaded.balance[s] - SumBySource(state.expenses, s)

\* C2: editExpense on an existing record adds the old amount back to the
\* record's old source, subtracts the new amount from the new source, changes
\* no other balance, and replaces amount, category, note and source of the
\* record.
C2_EditExpenseReverseThenApply ==
    [][(op'.name = "editExpense" /\ HasId(state.expenses, op'.id)) =>
        LET old == state.expenses[Find(state.expenses, op'.id)]
            reversed == [state.balance EXCEPT ![old.source] = @ + old.amount]
            new == state'.expenses[Find(state'.expenses, op'.id)]
        IN  /\ state'.balance
                 = [reversed EXCEPT ![op'.source] = @ - op'.amount]
            /\ HasId(state'.expenses, op'.id)
            /\ new = [old EXCEPT !.amount = op'.amount,
                         !.category = op'.category, !.note = op'.note,
                         !.source = op'.source]]_vars

\* C3: after any sequence of addIncome, editIncome and deleteIncome calls from
\* a state without income records, each balance equals its initial value plus
\* the sum of the amounts of the stored income records of that source.
C3_IncomeBalanceConservation ==
    \A s \in Sources :
        state.balance[s] = loaded.balance[s] + SumBySource(state.incomes, s)

\* the fields of the ledger that an envelope handler must leave alone
SameOutsideEnvelopes(old, new) ==
    /\ new.fixedExpenses = old.fixedExpenses
    /\ new.expenses = old.expenses
    /\ new.incomes = old.incomes
    /\ new.categories = old.categories
    /\ new.settings = old.settings

\* C4: deleteEnvelope on an existing envelope adds exactly the allocated
\* amount the envelope holds at that moment to balance.bank, leaves
\* balance.cash alone and removes the envelope, whether or not the view was
\* rendered since the envelope was last funded.
C4_DeleteEnvelopeRefundsAllocated ==
    [][(op'.name = "deleteEnvelope" /\ HasId(state.envelopes, op'.id)) =>
        LET env == state.envelopes[Find(state.envelopes, op'.id)] IN
        /\ state'.balance
             = [state.balance EXCEPT !.bank = @ + env.allocated]
        /\ ~HasId(state'.envelopes, op'.id)]_vars

\* C5: spendFromEnvelope leaves both balances as they were, decreases the
\* allocated amount of the addressed envelope by the amount with no floor,
\* and appends one transaction of type 'out' with that amount and note.
C5_SpendLeavesBalance ==
    [][op'.name = "spendFromEnvelope" =>
        LET n == Len(state.envelopeTransactions) IN
        /\ state'.balance = state.balance
        /\ Len(state'.envelopes) = Len(state.envelopes)
        /\ \A k \in 1..Len(state.envelopes) :
              state'.envelopes[k] =
                 IF state.envelopes[k].id = op'.id
                 THEN [state.envelopes[k] EXCEPT
                          !.allocated = @ - op'.amount]
                 ELSE state.envelopes[k]
        /\ Len(state'.envelopeTransactions) = n + 1
        /\ SubSeq(state'.envelopeTransactions, 1, n)
             = state.envelopeTransactions
        /\ state'.envelopeTransactions[n + 1].type = "out"
        /\ state'.envelopeTransactions[n + 1].amount = op'.amount
        /\ state'.envelopeTransactions[n + 1].envelopeId = op'.id
        /\ state'.envelopeTransactions[n + 1].note = op'.note
        /\ SameOutsideEnvelopes(state, state')]_vars

\* a spend has driven the allocated amount of its envelope below zero
C5_Witness ==
    /\ op.name = "spendFromEnvelope"
    /\ \E k \in 1..Len(state.envelopes) :
          /\ state.envelopes[k].id = op.id
          /\ state.envelopes[k].allocated < 0
    /\ state.balance = loaded.balance

RECURSIVE PaidFrom(_, _, _)
PaidFrom(arr, source, i) ==
    IF i > Len(arr) THEN 0
    ELSE (IF arr[i].source = source /\ arr[i].isPaid
          THEN arr[i].amount ELSE 0)
         + PaidFrom(arr, source, i + 1)

\* C6: under toggleFixed calls alone, also several before a render, each
\* balance equals its initial value minus the sum of the amounts of the
\* fixed expenses of that source that are marked paid.
C6_ToggleBalance ==
    \A s \in Sources :
        state.balance[s]
          = loaded.balance[s] - PaidFrom(state.fixedExpenses, s, 1)

\* C7: a run of the rollover check that finds the period of now different
\* from the period of lastResetDate clears isPaid of every fixed expense and
\* sets lastResetDate to now in one transition that changes nothing else.
C7_RolloverTransition ==
    [][(/\ op'.name = "rolloverCheck"
        /\ periodStart(Today, state.settings.payday)
             # periodStart(state.settings.lastResetDate,
                           state.settings.payday)) =>
        /\ Len(state'.fixedExpenses) = Len(state.fixedExpenses)
        /\ \A k \in 1..Len(state.fixedExpenses) :
              state'.fixedExpenses[k]
                = [state.fixedExpenses[k] EXCEPT !.isPaid = FALSE]
        /\ state'.settings
             = [state.settings EXCEPT !.lastResetDate = Today]
        /\ state'.balance = state.balance
        /\ state'.envelopes = state.envelopes
        /\ state'.envelopeTransactions = state.envelopeTransactions
        /\ state'.expenses = state.expenses
        /\ state'.incomes = state.incomes
        /\ state'.categories = state.categories]_vars

\* a rollover has just cleared a bill that had been paid on an earlier day
C7_Witness ==
    /\ op.name = "rolloverCheck"
    /\ day > 0
    /\ state.settings.lastResetDate = Today
    /\ state.balance.bank < loaded.balance.bank
    /\ \A k \in 1..Len(state.fixedExpenses) : ~state.fixedExpenses[k].isPaid

ExpectedStart(date, payday) ==
    IF date.d >= payday THEN [y |-> date.y, m |-> date.m, d |-> payday]
    ELSE IF date.m = 0 THEN [y |-> date.y - 1, m |-> 11, d |-> payday]
    ELSE [y |-> date.y, m |-> date.m - 1, d |-> payday]

\* C9: for every payday in 1..28 and every date, the period start is the
\* payday of the date's month when the day has reached the payday and of the
\* previous month otherwise, and start <= date < start plus one month.
C9_PeriodStart ==
    calc.done =>
        /\ calc.start = ExpectedStart(calc.date, calc.payday)
        /\ calc.cycleStart
             = toDateString(ExpectedStart(calc.date, calc.payday))
        /\ calc.key = toISOString(ExpectedStart(calc.date, calc.payday))
        /\ DateLE(calc.start, calc.date)
        /\ DateLT(calc.date, AddMonth(calc.start))

\* payday 10 and 2024-01-05: the period started on 2023-12-10
C9_Witness ==
    /\ calc.done
    /\ calc.payday = 10
    /\ calc.date = [y |-> 2024, m |-> 0, d |-> 5]
    /\ calc.start = [y |-> 2023, m |-> 11, d |-> 10]

\* the collection a handler looks its id up in
TargetOf(name, st) ==
    IF name \in {"editIncome", "deleteIncome"} THEN st.incomes
    ELSE IF name \in {"toggleFixed", "editFixed", "deleteFixed"}
         THEN st.fixedExpenses
    ELSE IF name \in {"editExpense", "deleteExpense"} THEN st.expenses
    ELSE st.envelopes

IdHandlers ==
    {"editIncome", "deleteIncome", "toggleFixed", "editFixed", "deleteFixed",
     "editEnvelope", "deleteEnvelope", "fundEnvelope", "spendFromEnvelope",
     "editExpense", "deleteExpense"}

\* C10: a handler that takes an id, called with an id no stored record has,
\* leaves the whole ledger state unchanged.
C10_UnknownIdIsNoOp ==
    [][(/\ op'.name \in IdHandlers
        /\ ~HasId(TargetOf(op'.name, state), op'.id)) =>
        state' = state]_vars

\* C11: editExpense called with the id of a stored expense and with the amount,
\* category, note and source that expense already has leaves the whole ledger
\* state (balances and every record) unchanged.
C11_EditToSameValuesIsIdentity ==
    [][(/\ op'.name = "editExpense"
        /\ \E k \in 1..Len(state.expenses) :
              /\ state.expenses[k].id = op'.id
              /\ state.expenses[k].amount = op'.amount
              /\ state.expenses[k].category = op'.category
              /\ state.expenses[k].note = op'.note
              /\ state.expenses[k].source = op'.source) =>
        state' = state]_vars

\* C12: editFixed, deleteFixed and resetFixed leave balance.bank and
\* balance.cash as they were, whether or not the fixed expenses they touch
\* are marked paid.
C12_FixedEditsKeepBalance ==
    [][op'.name \in {"editFixed", "deleteFixed", "resetFixed"} =>
        state'.balance = state.balance]_vars

\* a paid bill was moved to cash by editFixed: the bank still carries the
\* payment and cash was never debited
C12_Witness ==
    /\ op.name = "editFixed"
    /\ \E k \in 1..Len(state.fixedExpenses) :
          /\ state.fixedExpenses[k].id = op.id
          /\ state.fixedExpenses[k].isPaid
          /\ state.fixedExpenses[k].source = "cash"
    /\ state.balance.cash = loaded.balance.cash
    /\ state.balance.bank < loaded.balance.bank

IsPrefix(old, new) ==
    /\ Len(old) <= Len(new)
    /\ \A k \in 1..Len(old) : new[k] = old[k]

\* C13: every step of the mutation engine keeps the previous envelope
\* transaction log as a prefix of the new one; fundEnvelope and
\* spendFromEnvelope extend it by exactly one entry and every other
\* operation, deleteEnvelope included, leaves it as it was.
C13_TransactionLogAppendOnly ==
    [][/\ IsPrefix(state.envelopeTransactions, state'.envelopeTransactions)
       /\ IF op'.name \in {"fundEnvelope", "spendFromEnvelope"}
          THEN Len(state'.envelopeTransactions)
                 = Len(state.envelopeTransactions) + 1
          ELSE state'.envelopeTransactions = state.envelopeTransactions]_vars

\* an envelope was deleted and the log still holds its entries, which the
\* view now shows under the name for removed envelopes
C13_Witness ==
    /\ op.name = "deleteEnvelope"
    /\ ~HasId(state.envelopes, op.id)
    /\ \E k \in 1..Len(state.envelopeTransactions) :
          /\ state.envelopeTransactions[k].envelopeId = op.id
          /\ getEnvName(state.envelopes,
                        state.envelopeTransactions[k].envelopeId)
               = "Usunieta"

PaidFlags(arr) == [k \in 1..Len(arr) |-> <<arr[k].id, arr[k].isPaid>>]

\* an income record, an expense record, a paid flag or an envelope differs
LedgerEntryChanged(old, new) ==
    \/ new.incomes # old.incomes
    \/ new.expenses # old.expenses
    \/ PaidFlags(new.fixedExpenses) # PaidFlags(old.fixedExpenses)
    \/ new.envelopes # old.envelopes

\* C14: in every step in which balance.bank or balance.cash changes, a
\* ledger entry changes too: an income record, an expense record, the isPaid
\* flag of a fixed expense, or an envelope (its allocated amount or its
\* removal).
C14_BalanceNeverDriftsAlone ==
    [][state'.balance # state.balance =>
        LedgerEntryChanged(state, state')]_vars

\* C15: in every reachable state settings.payday is an integer in 1..28,
\* whatever text is entered in the payday field.
C15_PaydayInRange == state.settings.payday \in 1..28

\* C16: no reachable in-memory state lacks settings, categories or incomes,
\* whatever document the cache or the cloud held.
C16_LoadedStateIsBackfilled == MigratedFields \subseteq DOMAIN state

\* C17: when the cached item does not parse, the load is refused: the main
\* screen is not shown on the default initial state in place of the stored
\* data.
C17_CorruptItemRefused ==
    bootItem = CorruptItem =>
        ~(AppShown /\ user # Guest /\ state = INITIAL_STATE(FirstDay))

\* C19: the run of the persistence effect that follows a mutation leaves
\* the cached item equal to the serialized in-memory state, for a signed-in
\* user, before authentication has resolved, and in guest mode.
C19_CacheWrittenOnEveryMutation ==
    [][(/\ op.name = "addExpense"
        /\ op'.name = "persistEffect"
        /\ persistDeps.state # state) =>
        localStorage' = JSONstringify(state')]_vars

\* C20: a setDoc that throws leaves the in-memory state as it was and the
\* main screen with its handlers in place, and the saving indicator goes
\* back to idle afterwards.
C20_FailedSaveKeepsState ==
    /\ [][op'.name = "saveFailed" =>
            /\ state' = state
            /\ AppShown'
            /\ budget' = budget]_vars
    /\ ((op.name = "saveFailed") ~> ~isSaving)

\* a save has just failed while the indicator is on and the state holds an
\* expense that the cloud document does not
C20_Witness ==
    /\ op.name = "saveFailed"
    /\ isSaving
    /\ state.expenses # <<>>
    /\ cloud.exists => cloud.data # state

\* C18: invalid numeric input is rejected at the input boundary: a submit of
\* the income, expense, history or envelope form whose amount text holds no
\* number, or a number <= 0, leaves the state as it was, and every stored
\* expense, income and envelope transaction has an amount > 0
NoDigit(text) == \A k \in 1..Len(text) : ~IsDigit(text[k])
InvalidAmount(text) ==
    LET val == parseFloat(sanitize(text)) IN
    NoDigit(text) \/ isNaN(val) \/ val <= 0
StoredAmounts(st) ==
    {st.expenses[k].amount : k \in 1..Len(st.expenses)}
    \cup {st.incomes[k].amount : k \in 1..Len(st.incomes)}
    \cup {st.envelopeTransactions[k].amount :
             k \in 1..Len(st.envelopeTransactions)}
C21_SaveDebouncedAsOneTask ==
    /\ [](Len(saveTimer) <= 1)
    /\ [][(/\ op'.name = "persistEffect"
            /\ user = SignedIn /\ isAppLoaded /\ ~isFirstRun
            /\ "state" \in DOMAIN persistDeps
            /\ persistDeps.state # state)
             => saveTimer' = <<Timeout(state)>>]_vars
    /\ [][op'.name = "saveToCloud"
             => inFlight'[Len(inFlight')] = state]_vars

\* C22: the remote store is an eventually-consistent mirror: for a signed-in
\* user whose data is loaded, once mutations have stopped the remote document
\* eventually equals the in-memory state
Mirrored == cloud.exists /\ cloud.data = state
C22_RemoteEventuallyMirrorsState ==
    (user = SignedIn /\ isAppLoaded /\ ~fetching /\ budget = 0) ~> Mirrored

\* C23: the rollover check is recurring: whenever the financial period of the
\* current date differs from the period of lastResetDate while the app is
\* loaded, also after the clock has crossed a period boundary with payday
\* unchanged, the paid flags are eventually reset and lastResetDate advanced
PeriodBehind ==
    /\ isAppLoaded
    /\ periodStart(Today, state.settings.payday)
         # periodStart(state.settings.lastResetDate, state.settings.payday)
C23_RolloverCheckRecurs == PeriodBehind ~> ~PeriodBehind

\* C24: rollover is evaluated on every load: when a fetched snapshot whose
\* lastResetDate lies in an earlier financial period replaces the state that
\* was shown from the cache, its paid flags are reset and its lastResetDate
\* is set to now, whatever the order of cache load, check and fetch
C24_RolloverOnEveryLoad ==
    (op.name = "cloudLoad" /\ PeriodBehind)
        ~> (/\ state.settings.lastResetDate = Today
            /\ \A k \in 1..Len(state.fixedExpenses) :
                  ~state.fixedExpenses[k].isPaid)

\* C25: the two period filters agree: for every payday in 1..28, every
\* current date and every record date, the range filter of the expenses view
\* selects the record exactly when the key filter of the history view, with
\* the period of the current date selected, does
C25_PeriodFiltersAgree ==
    ("currentMonth" \in DOMAIN calc /\ calc.done)
        => calc.currentMonth = calc.filtered

\* payday 10 on 2024-01-05: both filters select 2023-12-10 to 2024-01-09
C25_Witness ==
    /\ "currentMonth" \in DOMAIN calc
    /\ calc.done
    /\ calc.payday = 10
    /\ calc.today = [y |-> 2024, m |-> 0, d |-> 5]
    /\ [y |-> 2023, m |-> 11, d |-> 10] \in calc.filtered
    /\ [y |-> 2024, m |-> 0, d |-> 9] \in calc.currentMonth
    /\ [y |-> 2024, m |-> 0, d |-> 10] \notin calc.currentMonth
    /\ Cardinality(calc.currentMonth) = 31

\* C26: envelope funding and deletion move money without creating or losing
\* it: after any sequence of income, expense and envelope handlers (no
\* editEnvelope, no fixed-expense handler) from the initial state,
\* bank + cash + the allocated amounts of the existing envelopes = the stored
\* incomes - the stored expenses - the 'out' envelope transactions
AllocatedOf(envelope) == envelope.allocated
OutAmountOf(transaction) ==
    IF transaction.type = "out" THEN transaction.amount ELSE 0
C26_MoneyConserved ==
    state.balance.bank + state.balance.cash
        + SumOf(state.envelopes, AllocatedOf, 1)
      = SumOf(state.incomes, AmountOf, 1) - SumOf(state.expenses, AmountOf, 1)
        - SumOf(state.envelopeTransactions, OutAmountOf, 1)

\* C27: record ids are unique within each collection in every reachable
\* state (expenses, incomes, fixed expenses, envelopes), also when two
\* records are created within the same clock tick
UniqueIds(arr) ==
    \A i, j \in 1..Len(arr) : arr[i].id = arr[j].id => i = j
C27_RecordIdsUnique ==
    /\ UniqueIds(state.expenses)
    /\ UniqueIds(state.incomes)
    /\ UniqueIds(state.fixedExpenses)
    /\ UniqueIds(state.envelopes)

\* C28: every fixed expense of every reachable state has an amount >= 0
\* and, when it has a due day, a due day in 1..31: the add and edit form
\* never stores a negative amount or an out-of-range day
C28_FixedExpenseFieldsValid ==
    \A k \in 1..Len(state.fixedExpenses) :
        /\ state.fixedExpenses[k].amount >= 0
        /\ \A i \in 1..Len(state.fixedExpenses[k].dueDate) :
               state.fixedExpenses[k].dueDate[i] \in 1..31

\* C29: the six trend buckets are the six consecutive financial periods
\* ending with the current one, contiguous and non-overlapping: for every
\* payday in 1..28 a record dated from periodStart(now) moved back five
\* months up to, not including, periodStart(now) advanced one month is
\* counted in exactly one bucket, every other record in none, and the six
\* bucket totals add up to the amounts of the records in that range
TrendRange(records, today, payday) ==
    LET currentPeriodStart == periodStart(today, payday)
        first == NewDate(currentPeriodStart.y, currentPeriodStart.m - 5,
                         currentPeriodStart.d)
        last == AddMonth(currentPeriodStart)
    IN  SelectSeq(records, LAMBDA r :
            DateLE(first, r.date) /\ DateLT(r.date, last))
RECURSIVE TotalOf(_, _, _)
TotalOf(arr, from, to) ==
    IF from > to THEN 0
    ELSE IF from = to THEN arr[from].amount
    ELSE LET mid == (from + to) \div 2 IN
         TotalOf(arr, from, mid) + TotalOf(arr, mid + 1, to)
ElementsOf(arr) == {arr[j] : j \in 1..Len(arr)}
C29_TrendBucketsPartition ==
    ("data" \in DOMAIN calc /\ calc.done) =>
        LET counted == [k \in 1..Len(calc.data) |->
                           ElementsOf(calc.data[k].counted)]
            ranged == TrendRange(TrendRecords, calc.today, calc.payday)
        IN
        /\ Len(calc.data) = 6
        \* no record twice in a bucket, none in two buckets
        /\ \A k \in 1..6 :
               Cardinality(counted[k]) = Len(calc.data[k].counted)
        /\ \A k, l \in 1..6 : k # l => counted[k] \cap counted[l] = {}
        \* the records counted are those of the range
        /\ UNION {counted[k] : k \in 1..6} = ElementsOf(ranged)
        /\ TotalOf(calc.data, 1, 6) = TotalOf(ranged, 1, Len(ranged))
C29_Witness ==
    /\ "data" \in DOMAIN calc
    /\ calc.done
    /\ calc.view = "Reports"
    /\ calc.payday = 28
    /\ calc.today = [y |-> FirstDay.y, m |-> 2, d |-> 1]
    /\ calc.data[1].counted[1].date = [y |-> FirstDay.y - 1, m |-> 8, d |-> 28]
    /\ calc.data[6].counted[Len(calc.data[6].counted)].date
           = [y |-> FirstDay.y, m |-> 2, d |-> 27]
    /\ calc.data[6].isCurrent
    /\ calc.data[6].amount > 0

\* C30: in guest mode no remote write ever happens: from the guest login on
\* no mutation, rollover or auth-state callback calls setDoc, and an
\* auth-state change arriving during the guest session replaces neither
\* the guest user nor the in-memory state
AuthCallbacks == {"signedIn", "signedOut", "authInGuest", "cloudLoad",
                  "cloudLoadFailed"}
C30_GuestNeverWritesRemote ==
    [][user = Guest =>
          /\ user' = Guest
          /\ Len(inFlight') <= Len(inFlight)
          /\ op'.name \notin {"saveDone"} => cloud' = cloud
          /\ op'.name \in AuthCallbacks => state' = state]_vars

====
